---- MODULE Spec2Model ----
(***************************************************************************)
(* A model of src/target/icepick.c of the Black Magic Debug project: the   *)
(* ICEPick IR addressing engine (icepick_write_ir) and the identification  *)
(* reader (icepick_router_handler).                                        *)
(*                                                                         *)
(* The device table (jtag_devs, jtag_dev_count), the chain transport       *)
(* (jtagtap_shift_ir, jtag_proc.jtagtap_tdi_seq, jtagtap_return_idle) and   *)
(* jtag_dev_shift_dr are external collaborators of that file. The calls    *)
(* the file makes on them are recorded argument by argument; their effect  *)
(* on the TAP state machine follows spec.md sections 4.2 and 6.            *)
(***************************************************************************)
EXTENDS Integers, Sequences, FiniteSets, TLC

VARIABLES
    jtag_dev_count,   \* number of devices enumerated on the chain
    jtag_devs,        \* the device table, one record per storage slot
    pc,               \* the position of the (single) thread of control
    caller,           \* who called icepick_write_ir: "top" or "rh"
    dev_index,        \* icepick_router_handler: its parameter
    icepick_idcode,   \* icepick_router_handler: its local
    device,           \* icepick_write_ir: its parameter (a slot of jtag_devs)
    ir,               \* icepick_write_ir: its parameter (uint8_t)
    device_index,     \* icepick_write_ir: the loop counter
    entry_devs,       \* the device table as it was when the call started
    tap,              \* the state of the chain's TAP state machine
    tapTrace,         \* TAP states visited since the call entered Shift-IR
    calls,            \* transport calls made by the current icepick_write_ir
    ops,              \* chain operations made by the current router handler
    output,           \* the diagnostic the router handler produced
    last              \* the previous completed icepick_write_ir call

vars == <<jtag_dev_count, jtag_devs, pc, caller, dev_index, icepick_idcode,
          device, ir, device_index, entry_devs, tap, tapTrace, calls, ops,
          output, last>>

----------------------------------------------------------------------------
(* Bounds of the model *)

\* The chain holds 1..MaxDevs devices.
MaxDevs == 3

\* The widest IR in the chain; wider than the 8 bits of icepick_write_ir's ir.
WideIrLen == 9

\* IR lengths a device of the chain may have.
IrLens == {4, 6, WideIrLen}

\* jtag_devs has more storage slots than the chain has devices.
NumSlots == MaxDevs + 1

Slots == 0 .. (NumSlots - 1)

\* Instructions the callers pass to icepick_write_ir (uint8_t values).
Instrs == {5, 42}

----------------------------------------------------------------------------
(* 32-bit words, kept as two 16-bit halves so that the width is exact *)

Pow2(n) == 2 ^ n

U32(hi, lo) == [hi |-> hi, lo |-> lo]

\* UINT32_MAX, the bypass sentinel of current_ir
UINT32_MAX == U32(65535, 65535)

\* the integer promotion of a uint8_t stored into a uint32_t field
ZeroExt(byte) == U32(0, byte % 256)

RECURSIVE BitAnd(_, _, _)
BitAnd(a, b, width) ==
    IF width = 0 THEN 0
    ELSE ((a % 2) * (b % 2)) + 2 * BitAnd(a \div 2, b \div 2, width - 1)

\* w & m on uint32_t
And32(w, m) == U32(BitAnd(w.hi, m.hi, 16), BitAnd(w.lo, m.lo, 16))

\* w >> n on uint32_t, 0 <= n < 32
Shr32(w, n) ==
    IF n >= 16
    THEN U32(0, w.hi \div Pow2(n - 16))
    ELSE U32(w.hi \div Pow2(n),
             (w.lo \div Pow2(n)) + (w.hi % Pow2(n)) * Pow2(16 - n))

----------------------------------------------------------------------------
(* Constants of icepick.c *)

IR_ROUTER == 2
IR_ICEPICKCODE == 5
IR_CONNECT == 7

ICEPICK_TYPE_MASK == 65520
ICEPICK_TYPE_C == 7360
ICEPICK_TYPE_D == 46032

ICEPICK_MAJOR_SHIFT == 28
ICEPICK_MAJOR_MASK == 15
ICEPICK_MINOR_SHIFT == 24
ICEPICK_MINOR_MASK == 15

\* the clock_cycles argument of jtag_dev_shift_dr
IdcodeBits == 32

\* the argument of jtagtap_return_idle
ReturnIdleCycles == 0

----------------------------------------------------------------------------
(* The TAP state machine driven by the chain transport *)

\* One TCK cycle of an IEEE 1149.1 TAP controller with the given TMS level.
TapNext(state, tms) ==
    CASE state = "Test-Logic-Reset" ->
             IF tms = 1 THEN "Test-Logic-Reset" ELSE "Run-Test/Idle"
      [] state = "Run-Test/Idle" ->
             IF tms = 1 THEN "Select-DR-Scan" ELSE "Run-Test/Idle"
      [] state = "Select-DR-Scan" ->
             IF tms = 1 THEN "Select-IR-Scan" ELSE "Capture-DR"
      [] state = "Capture-DR" -> IF tms = 1 THEN "Exit1-DR" ELSE "Shift-DR"
      [] state = "Shift-DR" -> IF tms = 1 THEN "Exit1-DR" ELSE "Shift-DR"
      [] state = "Exit1-DR" -> IF tms = 1 THEN "Update-DR" ELSE "Pause-DR"
      [] state = "Pause-DR" -> IF tms = 1 THEN "Exit2-DR" ELSE "Pause-DR"
      [] state = "Exit2-DR" -> IF tms = 1 THEN "Update-DR" ELSE "Shift-DR"
      [] state = "Update-DR" ->
             IF tms = 1 THEN "Select-DR-Scan" ELSE "Run-Test/Idle"
      [] state = "Select-IR-Scan" ->
             IF tms = 1 THEN "Test-Logic-Reset" ELSE "Capture-IR"
      [] state = "Capture-IR" -> IF tms = 1 THEN "Exit1-IR" ELSE "Shift-IR"
      [] state = "Shift-IR" -> IF tms = 1 THEN "Exit1-IR" ELSE "Shift-IR"
      [] state = "Exit1-IR" -> IF tms = 1 THEN "Update-IR" ELSE "Pause-IR"
      [] state = "Pause-IR" -> IF tms = 1 THEN "Exit2-IR" ELSE "Pause-IR"
      [] state = "Exit2-IR" -> IF tms = 1 THEN "Update-IR" ELSE "Shift-IR"
      [] state = "Update-IR" ->
             IF tms = 1 THEN "Select-DR-Scan" ELSE "Run-Test/Idle"

\* The states visited when the TMS levels of tmsSeq are clocked in from state.
RECURSIVE Walk(_, _)
Walk(state, tmsSeq) ==
    IF tmsSeq = <<>> THEN <<>>
    ELSE LET next == TapNext(state, Head(tmsSeq))
         IN  <<next>> \o Walk(next, Tail(tmsSeq))

\* The state a walk ends in.
WalkEnd(state, tmsSeq) ==
    IF tmsSeq = <<>> THEN state ELSE Walk(state, tmsSeq)[Len(tmsSeq)]

\* The TMS levels of shift_bits(is_last, pattern, bit_count): low on every bit,
\* high on the final bit when is_last is set. No bit, no exit.
ShiftTms(final_tms, clock_cycles) ==
    [i \in 1 .. clock_cycles |->
        IF i = clock_cycles /\ final_tms THEN 1 ELSE 0]

\* The TMS levels of return_to_state(depth): Exit1-IR to Update-IR, then
\* depth further cycles towards Run-Test/Idle.
ReturnTms(cycles) == <<1>> \o [i \in 1 .. cycles |-> 0]

\* The first clock_cycles bits of the transport's constant all-ones buffer.
Ones(clock_cycles) == [i \in 1 .. clock_cycles |-> 1]

\* The bits the transport reads, least significant first, from a pointer to
\* the one-byte object byte: bits 0..7 are the object's, any further bit lies
\* in the memory after it and is whatever that memory holds (beyond).
BitsAt(byte, beyond, clock_cycles) ==
    [i \in 1 .. clock_cycles |->
        IF i <= 8 THEN (byte \div Pow2(i - 1)) % 2
                  ELSE (beyond \div Pow2(i - 9)) % 2]

\* What the memory after a one-byte object may hold, as far as a read of
\* clock_cycles bits reaches into it.
Beyond(clock_cycles) ==
    IF clock_cycles <= 8 THEN {0} ELSE 0 .. (Pow2(clock_cycles - 8) - 1)

----------------------------------------------------------------------------
(* The device table *)

RECURSIVE SumLens(_, _, _)
SumLens(lens, from, to) ==
    IF from > to THEN 0 ELSE lens[from] + SumLens(lens, from + 1, to)

\* A slot outside the chain: zero-initialised storage.
EmptySlot ==
    [current_ir |-> U32(0, 0), ir_len |-> 0, ir_prescan |-> 0,
     ir_postscan |-> 0]

\* The table enumeration leaves for a chain of count devices with IR lengths
\* lens and every current_ir holding prior.
Enumerated(count, lens, prior) ==
    [i \in Slots |->
        IF i < count
        THEN [current_ir |-> prior,
              ir_len |-> lens[i],
              ir_prescan |-> SumLens(lens, 0, i - 1),
              ir_postscan |-> SumLens(lens, i + 1, count - 1)]
        ELSE EmptySlot]

\* Identification codes the router's data register may hold.
IdCodes ==
    { U32(4660, 46037),     \* 0x1234B3D5
      U32(4660, 50133),     \* 0x1234C3D5
      U32(4863, 46032),     \* 0x12FFB3D0
      U32(64188, 46047),    \* 0xFABCB3DF
      U32(0, 46032),        \* 0x0000B3D0
      U32(0, 7361),         \* 0x00001CC1, a type-C code
      U32(46032, 0),        \* 0xB3D00000
      U32(4660, 46053),     \* 0x1234B3E5
      UINT32_MAX }          \* 0xFFFFFFFF

NoDev == 0 - 1

NoCode == U32(0, 0)

NoOutput == [kind |-> "none"]

NoCall(table) == [device |-> NoDev, ir |-> 0, calls |-> <<>>, table |-> table]

Init ==
    /\ \E count \in 1 .. MaxDevs :
       \E lens \in [0 .. (count - 1) -> IrLens] :
       \E prior \in {U32(0, 0), UINT32_MAX} :
          /\ jtag_dev_count = count
          /\ jtag_devs = Enumerated(count, lens, prior)
    /\ pc = "idle"
    /\ caller = "top"
    /\ dev_index = NoDev
    /\ icepick_idcode = NoCode
    /\ device = NoDev
    /\ ir = 0
    /\ device_index = 0
    /\ entry_devs = jtag_devs
    /\ tap = "Run-Test/Idle"
    /\ tapTrace = <<>>
    /\ calls = <<>>
    /\ ops = <<>>
    /\ output = NoOutput
    /\ last = NoCall(jtag_devs)

----------------------------------------------------------------------------
(* Recording the calls made on the collaborators *)

\* jtag_proc.jtagtap_tdi_seq(final_tms, data_in, clock_cycles): the call is
\* recorded with the bits it reads from data_in, and the TAP is clocked once
\* per bit.
TdiSeq(final_tms, data_in, clock_cycles) ==
    LET tms == ShiftTms(final_tms, clock_cycles)
    IN  /\ calls' = Append(calls, [fn |-> "tdi_seq",
                                   final_tms |-> final_tms,
                                   data_in |-> data_in,
                                   clock_cycles |-> clock_cycles])
        /\ tapTrace' = tapTrace \o Walk(tap, tms)
        /\ tap' = WalkEnd(tap, tms)

\* jtagtap_shift_ir(): the transport drives the TAP into Shift-IR.
ShiftIr ==
    /\ calls' = Append(calls, [fn |-> "shift_ir"])
    /\ tapTrace' = <<"Shift-IR">>
    /\ tap' = "Shift-IR"

\* jtagtap_return_idle(cycles)
ReturnIdle(cycles) ==
    /\ calls' = Append(calls, [fn |-> "return_idle", cycles |-> cycles])
    /\ tapTrace' = tapTrace \o Walk(tap, ReturnTms(cycles))
    /\ tap' = WalkEnd(tap, ReturnTms(cycles))

\* The local state of a call that has returned no longer exists.
NoFrame ==
    /\ caller' = "top"
    /\ dev_index' = NoDev
    /\ icepick_idcode' = NoCode
    /\ device' = NoDev
    /\ ir' = 0
    /\ device_index' = 0
    /\ tapTrace' = <<>>
    /\ calls' = <<>>
    /\ ops' = <<>>
    /\ output' = NoOutput

----------------------------------------------------------------------------
(* icepick_write_ir *)

\* A caller other than the router handler calls icepick_write_ir(&jtag_devs[d], x).
CallWriteIr(d, x) ==
    /\ pc = "idle"
    /\ pc' = "wi_loop"
    /\ caller' = "top"
    /\ device' = d
    /\ ir' = x
    /\ device_index' = 0
    /\ entry_devs' = jtag_devs
    /\ tapTrace' = <<>>
    /\ calls' = <<>>
    /\ UNCHANGED <<jtag_dev_count, jtag_devs, dev_index, icepick_idcode, tap,
                   ops, output, last>>

\* WiLoop with an off-by-one bound: the last device of the chain is not reset.
WiLoopStopsEarly ==
    /\ pc = "wi_loop"
    /\ IF device_index + 1 < jtag_dev_count
       THEN /\ jtag_devs' =
                  [jtag_devs EXCEPT ![device_index].current_ir = UINT32_MAX]
            /\ device_index' = device_index + 1
            /\ pc' = "wi_loop"
       ELSE /\ pc' = "wi_set"
            /\ UNCHANGED <<jtag_devs, device_index>>
    /\ UNCHANGED <<jtag_dev_count, caller, dev_index, icepick_idcode, device,
                   ir, entry_devs, tap, tapTrace, calls, ops, output, last>>

\* for (device_index = 0; device_index < jtag_dev_count; device_index++)
\*     jtag_devs[device_index].current_ir = UINT32_MAX;
WiLoop ==
    /\ pc = "wi_loop"
    /\ IF device_index < jtag_dev_count
       THEN /\ jtag_devs' =
                  [jtag_devs EXCEPT ![device_index].current_ir = UINT32_MAX]
            /\ device_index' = device_index + 1
            /\ pc' = "wi_loop"
       ELSE /\ pc' = "wi_set"
            /\ UNCHANGED <<jtag_devs, device_index>>
    /\ UNCHANGED <<jtag_dev_count, caller, dev_index, icepick_idcode, device,
                   ir, entry_devs, tap, tapTrace, calls, ops, output, last>>

\* WiSet storing the instruction in the wrong field of the target.
WiSetWrongField ==
    /\ pc = "wi_set"
    /\ jtag_devs' = [jtag_devs EXCEPT ![device].ir_len = ir]
    /\ pc' = "wi_shift_ir"
    /\ UNCHANGED <<jtag_dev_count, caller, dev_index, icepick_idcode, device,
                   ir, device_index, entry_devs, tap, tapTrace, calls, ops,
                   output, last>>

\* device->current_ir = ir;
WiSet ==
    /\ pc = "wi_set"
    /\ jtag_devs' = [jtag_devs EXCEPT ![device].current_ir = ZeroExt(ir)]
    /\ pc' = "wi_shift_ir"
    /\ UNCHANGED <<jtag_dev_count, caller, dev_index, icepick_idcode, device,
                   ir, device_index, entry_devs, tap, tapTrace, calls, ops,
                   output, last>>

\* WiShiftIr releasing the target to bypass once the chain is in Shift-IR.
WiShiftIrThenBypass ==
    /\ pc = "wi_shift_ir"
    /\ ShiftIr
    /\ jtag_devs' = [jtag_devs EXCEPT ![device].current_ir = UINT32_MAX]
    /\ pc' = "wi_prescan"
    /\ UNCHANGED <<jtag_dev_count, caller, dev_index, icepick_idcode, device,
                   ir, device_index, entry_devs, ops, output, last>>

\* jtagtap_shift_ir();
WiShiftIr ==
    /\ pc = "wi_shift_ir"
    /\ ShiftIr
    /\ pc' = "wi_prescan"
    /\ UNCHANGED <<jtag_dev_count, jtag_devs, caller, dev_index,
                   icepick_idcode, device, ir, device_index, entry_devs, ops,
                   output, last>>

\* the final_tms argument of the prescan shift
PrescanFinalTms == FALSE

\* WiPrescan clocking one filler bit too many.
WiPrescanOneMore ==
    /\ pc = "wi_prescan"
    /\ TdiSeq(PrescanFinalTms, Ones(jtag_devs[device].ir_prescan + 1),
              jtag_devs[device].ir_prescan + 1)
    /\ pc' = "wi_ir"
    /\ UNCHANGED <<jtag_dev_count, jtag_devs, caller, dev_index,
                   icepick_idcode, device, ir, device_index, entry_devs, ops,
                   output, last>>

\* jtag_proc.jtagtap_tdi_seq(false, ones, device->ir_prescan);
WiPrescan ==
    /\ pc = "wi_prescan"
    /\ TdiSeq(PrescanFinalTms, Ones(jtag_devs[device].ir_prescan),
              jtag_devs[device].ir_prescan)
    /\ pc' = "wi_ir"
    /\ UNCHANGED <<jtag_dev_count, jtag_devs, caller, dev_index,
                   icepick_idcode, device, ir, device_index, entry_devs, ops,
                   output, last>>

\* IrFinalTms with the exit requested whatever follows the instruction.
IrFinalTmsAlways(ir_postscan) == TRUE

\* the final_tms argument of the instruction shift: !device->ir_postscan
IrFinalTms(ir_postscan) == ir_postscan = 0

\* jtag_proc.jtagtap_tdi_seq(!device->ir_postscan, &ir, device->ir_len);
\* ir is a one-byte object: a read of more than 8 bits runs past it.
WiIr ==
    /\ pc = "wi_ir"
    /\ \E beyond \in Beyond(jtag_devs[device].ir_len) :
          TdiSeq(IrFinalTms(jtag_devs[device].ir_postscan),
                 BitsAt(ir, beyond, jtag_devs[device].ir_len),
                 jtag_devs[device].ir_len)
    /\ pc' = "wi_postscan"
    /\ UNCHANGED <<jtag_dev_count, jtag_devs, caller, dev_index,
                   icepick_idcode, device, ir, device_index, entry_devs, ops,
                   output, last>>

\* the final_tms argument of the postscan shift
PostscanFinalTms == TRUE

\* WiPostscan making its call only when there are bits after the target.
WiPostscanOnlyWhenPresent ==
    /\ pc = "wi_postscan"
    /\ IF jtag_devs[device].ir_postscan > 0
       THEN TdiSeq(PostscanFinalTms, Ones(jtag_devs[device].ir_postscan),
                   jtag_devs[device].ir_postscan)
       ELSE UNCHANGED <<calls, tapTrace, tap>>
    /\ pc' = "wi_return_idle"
    /\ UNCHANGED <<jtag_dev_count, jtag_devs, caller, dev_index,
                   icepick_idcode, device, ir, device_index, entry_devs, ops,
                   output, last>>

\* jtag_proc.jtagtap_tdi_seq(true, ones, device->ir_postscan);
WiPostscan ==
    /\ pc = "wi_postscan"
    /\ TdiSeq(PostscanFinalTms, Ones(jtag_devs[device].ir_postscan),
              jtag_devs[device].ir_postscan)
    /\ pc' = "wi_return_idle"
    /\ UNCHANGED <<jtag_dev_count, jtag_devs, caller, dev_index,
                   icepick_idcode, device, ir, device_index, entry_devs, ops,
                   output, last>>

\* WiReturnIdle going on to Run-Test/Idle: jtagtap_return_idle(1).
WiReturnIdleToIdle ==
    /\ pc = "wi_return_idle"
    /\ ReturnIdle(ReturnIdleCycles + 1)
    /\ pc' = "wi_done"
    /\ UNCHANGED <<jtag_dev_count, jtag_devs, caller, dev_index,
                   icepick_idcode, device, ir, device_index, entry_devs, ops,
                   output, last>>

\* jtagtap_return_idle(0);
WiReturnIdle ==
    /\ pc = "wi_return_idle"
    /\ ReturnIdle(ReturnIdleCycles)
    /\ pc' = "wi_done"
    /\ UNCHANGED <<jtag_dev_count, jtag_devs, caller, dev_index,
                   icepick_idcode, device, ir, device_index, entry_devs, ops,
                   output, last>>

\* The closing brace of icepick_write_ir: control returns to the caller.
WiReturn ==
    /\ pc = "wi_done"
    /\ last' = [device |-> device, ir |-> ir, calls |-> calls,
                table |-> jtag_devs]
    /\ IF caller = "rh"
       THEN /\ pc' = "rh_shift_dr"
            /\ UNCHANGED <<caller, dev_index, icepick_idcode, device, ir,
                           device_index, entry_devs, tapTrace, calls, ops,
                           output>>
       ELSE /\ pc' = "idle"
            /\ entry_devs' = jtag_devs
            /\ NoFrame
    /\ UNCHANGED <<jtag_dev_count, jtag_devs, tap>>

----------------------------------------------------------------------------
(* icepick_router_handler *)

\* jtag_dev_s *const device = &jtag_devs[dev_index];
\* icepick_write_ir(device, IR_ICEPICKCODE);
RhWriteIr(d) ==
    /\ pc = "idle"
    /\ dev_index' = d
    /\ ops' = <<[op |-> "write_ir", device |-> d, ir |-> IR_ICEPICKCODE]>>
    /\ pc' = "wi_loop"
    /\ caller' = "rh"
    /\ device' = d
    /\ ir' = IR_ICEPICKCODE
    /\ device_index' = 0
    /\ entry_devs' = jtag_devs
    /\ tapTrace' = <<>>
    /\ calls' = <<>>
    /\ UNCHANGED <<jtag_dev_count, jtag_devs, icepick_idcode, tap, output,
                   last>>

\* uint32_t icepick_idcode = 0U;
\* jtag_dev_shift_dr(dev_index, (uint8_t *)&icepick_idcode, NULL, 32U);
\* The data register shift leaves the device table alone and parks the TAP in
\* Run-Test/Idle; the code read is the hardware's.
RhShiftDr ==
    /\ pc = "rh_shift_dr"
    /\ \E code \in IdCodes : icepick_idcode' = code
    /\ ops' = Append(ops, [op |-> "shift_dr", device |-> dev_index,
                           clock_cycles |-> IdcodeBits])
    /\ tap' = "Run-Test/Idle"
    /\ pc' = "rh_check"
    /\ UNCHANGED <<jtag_dev_count, jtag_devs, caller, dev_index, device, ir,
                   device_index, entry_devs, tapTrace, calls, output, last>>

\* IsMismatch comparing against the type-C signature.
IsMismatchTypeC(idcode) ==
    And32(idcode, U32(0, ICEPICK_TYPE_MASK)) # U32(0, ICEPICK_TYPE_C)

\* (icepick_idcode & ICEPICK_TYPE_MASK) != ICEPICK_TYPE_D
IsMismatch(idcode) ==
    And32(idcode, U32(0, ICEPICK_TYPE_MASK)) # U32(0, ICEPICK_TYPE_D)

\* DEBUG_ERROR("ICEPick is not a type-D controller (%08x)\n", icepick_idcode)
ErrorOutput(idcode) == [kind |-> "error", raw |-> idcode]

\* InfoOutput with the minor revision taken one nibble too low.
InfoOutputLowMinor(idcode) ==
    [kind |-> "info",
     major |-> And32(Shr32(idcode, ICEPICK_MAJOR_SHIFT),
                     U32(0, ICEPICK_MAJOR_MASK)).lo,
     minor |-> And32(Shr32(idcode, ICEPICK_MINOR_SHIFT - 4),
                     U32(0, ICEPICK_MINOR_MASK)).lo,
     raw |-> idcode]

\* DEBUG_INFO("ICEPick type-D controller v%u.%u (%08x)\n", major, minor, idcode)
InfoOutput(idcode) ==
    [kind |-> "info",
     major |-> And32(Shr32(idcode, ICEPICK_MAJOR_SHIFT),
                     U32(0, ICEPICK_MAJOR_MASK)).lo,
     minor |-> And32(Shr32(idcode, ICEPICK_MINOR_SHIFT),
                     U32(0, ICEPICK_MINOR_MASK)).lo,
     raw |-> idcode]

\* RhCheck re-reading on a mismatch: a second IR write, then a second DR read.
RhCheckRetries ==
    /\ pc = "rh_check"
    /\ IF IsMismatch(icepick_idcode)
       THEN /\ ops' = Append(ops, [op |-> "write_ir", device |-> dev_index,
                                   ir |-> IR_ICEPICKCODE])
            /\ pc' = "wi_loop"
            /\ device_index' = 0
            /\ calls' = <<>>
            /\ tapTrace' = <<>>
            /\ UNCHANGED <<output, jtag_devs>>
       ELSE /\ output' = InfoOutput(icepick_idcode)
            /\ pc' = "rh_done"
            /\ UNCHANGED <<ops, device_index, calls, tapTrace, jtag_devs>>
    /\ UNCHANGED <<jtag_dev_count, caller, dev_index, icepick_idcode, device,
                   ir, entry_devs, tap, last>>

\* RhCheck putting the probed device back into bypass on a mismatch.
RhCheckReleases ==
    /\ pc = "rh_check"
    /\ IF IsMismatch(icepick_idcode)
       THEN /\ output' = ErrorOutput(icepick_idcode)
            /\ jtag_devs' =
                  [jtag_devs EXCEPT ![dev_index].current_ir = UINT32_MAX]
       ELSE /\ output' = InfoOutput(icepick_idcode)
            /\ UNCHANGED jtag_devs
    /\ pc' = "rh_done"
    /\ UNCHANGED <<jtag_dev_count, caller, dev_index, icepick_idcode, device,
                   ir, device_index, entry_devs, tap, tapTrace, calls, ops,
                   last>>

\* if (mismatch) { DEBUG_ERROR(...); return; }  DEBUG_INFO(...);
RhCheck ==
    /\ pc = "rh_check"
    /\ output' = IF IsMismatch(icepick_idcode)
                 THEN ErrorOutput(icepick_idcode)
                 ELSE InfoOutput(icepick_idcode)
    /\ pc' = "rh_done"
    /\ UNCHANGED <<jtag_dev_count, jtag_devs, caller, dev_index,
                   icepick_idcode, device, ir, device_index, entry_devs, tap,
                   tapTrace, calls, ops, last>>

\* The return of icepick_router_handler.
RhReturn ==
    /\ pc = "rh_done"
    /\ pc' = "idle"
    /\ entry_devs' = jtag_devs
    /\ NoFrame
    /\ UNCHANGED <<jtag_dev_count, jtag_devs, tap, last>>

----------------------------------------------------------------------------

\* The devices a caller names: every device of the chain, and the first slot
\* of jtag_devs that is not one.
Targets == 0 .. jtag_dev_count

Next ==
    \/ \E d \in Targets, x \in Instrs : CallWriteIr(d, x)
    \/ WiLoop
    \/ WiSet
    \/ WiShiftIr
    \/ WiPrescan
    \/ WiIr
    \/ WiPostscan
    \/ WiReturnIdle
    \/ WiReturn
    \/ \E d \in Targets : RhWriteIr(d)
    \/ RhShiftDr
    \/ RhCheck
    \/ RhReturn

Spec == Init /\ [][Next]_vars

----------------------------------------------------------------------------
(* Vocabulary of the properties *)

\* d is a device of the chain.
Member(d) == d >= 0 /\ d < jtag_dev_count

Chain == 0 .. (jtag_dev_count - 1)

\* icepick_write_ir is past its table writes and has not returned.
WriteIrPastSet ==
    pc \in {"wi_shift_ir", "wi_prescan", "wi_ir", "wi_postscan",
            "wi_return_idle", "wi_done"}

\* icepick_write_ir has been entered and has not returned.
InWriteIr == pc \in {"wi_loop", "wi_set"} \/ WriteIrPastSet

\* No icepick_write_ir is in progress.
WriteIrReturned == pc \in {"idle", "rh_shift_dr", "rh_check", "rh_done"}

\* In table, d holds instruction x and every other device of the chain is in
\* bypass.
Addresses(table, d, x) ==
    /\ table[d].current_ir = [hi |-> 0, lo |-> x]
    /\ \A i \in Chain : i # d => table[i].current_ir = UINT32_MAX

\* The devices of the chain whose current_ir is a real opcode.
RealOpcodes(table) == {i \in Chain : table[i].current_ir # UINT32_MAX}

\* The bits one transport call shifts, each with its exit flag.
CallBits(c) ==
    IF c.fn = "tdi_seq"
    THEN [i \in 1 .. c.clock_cycles |->
             [tdi |-> c.data_in[i],
              exit |-> c.final_tms /\ i = c.clock_cycles]]
    ELSE <<>>

\* The bits a sequence of transport calls shifts, in order.
RECURSIVE Wire(_)
Wire(cs) == IF cs = <<>> THEN <<>> ELSE CallBits(Head(cs)) \o Wire(Tail(cs))

\* Bit i (from 1, least significant first) of the width-bit encoding of x.
EncodingBit(x, i) == (x \div (2 ^ (i - 1))) % 2

\* The bit sequence of a chain-wide IR write.
Layout(prescan, len, postscan, x) ==
    [i \in 1 .. prescan |-> [tdi |-> 1, exit |-> FALSE]]
    \o [i \in 1 .. len |->
           [tdi |-> EncodingBit(x, i), exit |-> (i = len /\ postscan = 0)]]
    \o [i \in 1 .. postscan |-> [tdi |-> 1, exit |-> (i = postscan)]]

----------------------------------------------------------------------------
(* Properties *)

\* C1: once icepick_write_ir(d, x), d a device of the chain, has written the
\* table, and until the next call writes it, d's current_ir is x and every
\* other device of the chain holds UINT32_MAX, so exactly one device holds a
\* real opcode, whatever the table held before.
C1_TargetAddressedOthersBypassed ==
    /\ (WriteIrPastSet /\ Member(device)) =>
          /\ Addresses(jtag_devs, device, ir)
          /\ RealOpcodes(jtag_devs) = {device}
    /\ (WriteIrReturned /\ Member(last.device)) =>
          /\ Addresses(jtag_devs, last.device, last.ir)
          /\ Cardinality(RealOpcodes(jtag_devs)) = 1

\* A write to device 0 of a chain of three whose device 1 held a real opcode.
C1_Witness ==
    /\ pc = "wi_done"
    /\ jtag_dev_count = 3
    /\ device = 0
    /\ ir = 42
    /\ entry_devs[1].current_ir = [hi |-> 0, lo |-> 5]
    /\ jtag_devs[1].current_ir = UINT32_MAX

\* C2: the bits icepick_write_ir(d, x) presents to the transport are prescan(d)
\* ones without exit flag, the ir_len(d)-bit encoding of x with the exit flag
\* on its last bit iff postscan(d) = 0, and postscan(d) ones with the exit flag
\* on the last; ir_len [4, 6, 4], device 1, x = 0b101010 gives 4 ones, the six
\* bits 0,1,0,1,0,1 and 4 ones with the exit flag on the last.
C2_WireLayout ==
    (pc = "wi_done" /\ Member(device)) =>
        Wire(calls) = Layout(jtag_devs[device].ir_prescan,
                             jtag_devs[device].ir_len,
                             jtag_devs[device].ir_postscan, ir)

\* Within the 8 bits of ir the layout holds: the bits that break it are those
\* read past ir for a device whose IR is longer.
LayoutUpTo8Bits ==
    (pc = "wi_done" /\ Member(device) /\ jtag_devs[device].ir_len <= 8) =>
        Wire(calls) = Layout(jtag_devs[device].ir_prescan,
                             jtag_devs[device].ir_len,
                             jtag_devs[device].ir_postscan, ir)

\* C3: in every icepick_write_ir on a device of the chain, for every prescan
\* >= 0, ir_len >= 1 and postscan >= 0, exactly one shifted
\* bit carries the exit flag, and it is the last bit of the whole sequence: no
\* prescan bit carries it, an instruction bit carries it iff postscan = 0, and
\* the TAP leaves Shift-IR for Exit1-IR exactly once.
C3_ExactlyOneExit ==
    (pc = "wi_done" /\ Member(device) /\ jtag_devs[device].ir_len >= 1) =>
        LET w == Wire(calls)
            pre == jtag_devs[device].ir_prescan
            len == jtag_devs[device].ir_len
            post == jtag_devs[device].ir_postscan
        IN  /\ Len(w) = pre + len + post
            /\ {i \in 1 .. Len(w) : w[i].exit} = {Len(w)}
            /\ \A i \in 1 .. pre : ~w[i].exit
            /\ (\E i \in (pre + 1) .. (pre + len) : w[i].exit) <=> (post = 0)
            /\ Cardinality({i \in 1 .. Len(tapTrace) :
                               tapTrace[i] = "Exit1-IR"}) = 1

\* The last device of a chain of several: bits before it, none after it.
C3_Witness ==
    /\ pc = "wi_done"
    /\ Member(device)
    /\ jtag_devs[device].ir_prescan > 0
    /\ jtag_devs[device].ir_postscan = 0
    /\ calls[3].final_tms
    /\ calls[4].clock_cycles = 0

\* C4: icepick_write_ir on a device of the chain takes the TAP through
\* Shift-IR, then Exit1-IR, then Update-IR and stops there: from entering
\* Shift-IR to the return the TAP is never in Run-Test/Idle or
\* Test-Logic-Reset, and jtagtap_return_idle is called with 0.
C4_EndsInUpdateIr ==
    /\ (WriteIrPastSet /\ Member(device)) =>
          \A i \in 1 .. Len(tapTrace) :
              tapTrace[i] \notin {"Run-Test/Idle", "Test-Logic-Reset"}
    /\ (pc = "wi_done" /\ Member(device)) =>
          LET total == jtag_devs[device].ir_prescan
                       + jtag_devs[device].ir_len
                       + jtag_devs[device].ir_postscan
          IN  /\ tap = "Update-IR"
              /\ tapTrace = [i \in 1 .. total |-> "Shift-IR"]
                            \o <<"Exit1-IR", "Update-IR">>
              /\ calls[Len(calls)] = [fn |-> "return_idle", cycles |-> 0]

\* The first call after enumeration, which starts in Run-Test/Idle.
C4_Witness ==
    /\ pc = "wi_done"
    /\ Member(device)
    /\ last.device = NoDev
    /\ tap = "Update-IR"
    /\ Len(tapTrace) > 2

\* C5: two icepick_write_ir(d, x) in a row with the same d and x make the same
\* transport calls, bit for bit, and leave the same device table.
C5_Idempotent ==
    (pc = "wi_done" /\ last.device = device /\ last.ir = ir) =>
        /\ calls = last.calls
        /\ jtag_devs = last.table

\* Within the 8 bits of ir the second call repeats the first.
IdempotentUpTo8Bits ==
    (pc = "wi_done" /\ last.device = device /\ last.ir = ir
       /\ jtag_devs[device].ir_len <= 8) =>
        /\ calls = last.calls
        /\ jtag_devs = last.table

\* C6: icepick_router_handler accepts a code iff (code & 0xFFF0) = 0xB3D0; any
\* other code, a type-C one included, is reported as a mismatch carrying the
\* raw code and no major or minor. 0x1234B3D5 is accepted, 0x1234C3D5 is not.
C6_AcceptsOnlyTypeD ==
    (pc = "rh_done") =>
        LET type == icepick_idcode.lo - (icepick_idcode.lo % 16)
        IN  /\ (type = 46032) <=> (output.kind = "info")
            /\ (type # 46032) =>
                  output = [kind |-> "error", raw |-> icepick_idcode]
            /\ (icepick_idcode = [hi |-> 4660, lo |-> 46037]) =>
                  output.kind = "info"
            /\ (icepick_idcode = [hi |-> 4660, lo |-> 50133]) =>
                  output = [kind |-> "error",
                            raw |-> [hi |-> 4660, lo |-> 50133]]

\* A type-C code is rejected.
C6_Witness ==
    /\ pc = "rh_done"
    /\ icepick_idcode = [hi |-> 0, lo |-> 7361]
    /\ output.kind = "error"

\* C7: for an accepted code the handler reports major = (code >> 28) & 0xF,
\* minor = (code >> 24) & 0xF and the code itself as raw: major and minor are
\* the two top nibbles and no other bit enters them. 0x1234B3D5 gives 1 and 2.
C7_DecodesMajorMinor ==
    (pc = "rh_done" /\ output.kind = "info") =>
        /\ output.major = icepick_idcode.hi \div 4096
        /\ output.minor = (icepick_idcode.hi \div 256) % 16
        /\ output.raw = icepick_idcode
        /\ (icepick_idcode = [hi |-> 4660, lo |-> 46037]) =>
               (output.major = 1 /\ output.minor = 2)

\* 0x12FFB3D0 differs from 0x1234B3D5 in bits 0-3 and 16-23 only.
C7_Witness ==
    /\ pc = "rh_done"
    /\ icepick_idcode = [hi |-> 4863, lo |-> 46032]
    /\ output.kind = "info"
    /\ output.major = 1
    /\ output.minor = 2

\* C8: a call of icepick_router_handler(dev) makes exactly one IR write, of
\* instruction 0x05 to dev, then exactly one 32-bit DR shift on dev, then
\* classifies; match or not, there is no second IR write and no second DR
\* shift.
C8_OneWriteThenOneRead ==
    LET write == [op |-> "write_ir", device |-> dev_index, ir |-> 5]
        read == [op |-> "shift_dr", device |-> dev_index, clock_cycles |-> 32]
    IN  /\ (caller = "rh" /\ pc \notin {"rh_check", "rh_done"}) =>
              /\ ops = <<write>>
              /\ device = dev_index
              /\ ir = 5
        /\ (pc \in {"rh_check", "rh_done"}) =>
              /\ ops = <<write, read>>
              /\ last.device = dev_index
              /\ last.ir = 5
              /\ last.calls = calls

\* A mismatch has been reported after one write and one read.
C8_Witness ==
    /\ pc = "rh_done"
    /\ output.kind = "error"
    /\ Len(ops) = 2

\* C9: when icepick_router_handler returns, mismatch or match alike, the
\* device table is as the identification-read IR write left it: the probed
\* device holds 0x05, every other device of the chain is in bypass, and no
\* ir_len, ir_prescan or ir_postscan has changed.
C9_TableAsIrWriteLeftIt ==
    (pc = "rh_done") =>
        /\ jtag_devs = last.table
        /\ jtag_devs[dev_index].current_ir = [hi |-> 0, lo |-> 5]
        /\ \A i \in Chain :
              i # dev_index => jtag_devs[i].current_ir = UINT32_MAX
        /\ \A i \in Slots :
              /\ jtag_devs[i].ir_len = entry_devs[i].ir_len
              /\ jtag_devs[i].ir_prescan = entry_devs[i].ir_prescan
              /\ jtag_devs[i].ir_postscan = entry_devs[i].ir_postscan
        /\ jtag_devs =
              [i \in Slots |->
                  [entry_devs[i] EXCEPT !.current_ir =
                      IF i = dev_index THEN [hi |-> 0, lo |-> 5]
                      ELSE IF i < jtag_dev_count THEN UINT32_MAX ELSE @]]

\* A mismatch on a device of a chain of several.
C9_Witness ==
    /\ pc = "rh_done"
    /\ output.kind = "error"
    /\ Member(dev_index)
    /\ jtag_dev_count > 1

\* C10: a call of icepick_write_ir whose device is not in the chain, or whose
\* instruction does not fit the target's IR length, fails without writing the
\* device table and without driving the transport.
C10_RejectsBadArguments ==
    (InWriteIr /\ (~Member(device) \/ ir >= 2 ^ jtag_devs[device].ir_len)) =>
        /\ jtag_devs = entry_devs
        /\ calls = <<>>

\* The tdi_seq calls among a sequence of transport calls.
ShiftCalls(cs) == SelectSeq(cs, LAMBDA c : c.fn = "tdi_seq")

\* C11 as claimed: the postscan shift is issued only when postscan > 0; with
\* postscan = 0 there is no third shift call, and no shift call with the exit
\* flag set and a bit count of 0.
C11_NoThirdShiftWithoutPostscan ==
    (pc = "wi_done" /\ Member(device)) =>
        /\ (Len(ShiftCalls(calls)) = 3) <=> (jtag_devs[device].ir_postscan > 0)
        /\ \A i \in 1 .. Len(calls) :
              calls[i].fn = "tdi_seq" =>
                 ~(calls[i].final_tms /\ calls[i].clock_cycles = 0)

\* C11 as amended: every icepick_write_ir makes the third shift call, with the
\* exit flag set, the all-ones pattern and a bit count of postscan; with
\* postscan = 0 that count is 0 and the call shifts no bit, so filler bits
\* follow the instruction on the wire only when postscan > 0.
C11_ThirdShiftAlwaysIssued ==
    (pc = "wi_done" /\ Member(device)) =>
        LET post == jtag_devs[device].ir_postscan
            shifted == jtag_devs[device].ir_prescan + jtag_devs[device].ir_len
        IN  /\ Len(ShiftCalls(calls)) = 3
            /\ ShiftCalls(calls)[3] =
                  [fn |-> "tdi_seq", final_tms |-> TRUE,
                   data_in |-> [i \in 1 .. post |-> 1], clock_cycles |-> post]
            /\ Len(Wire(calls)) - shifted = post
            /\ CallBits(ShiftCalls(calls)[3]) =
                  [i \in 1 .. post |-> [tdi |-> 1, exit |-> (i = post)]]

\* The only device of a chain: no bits after it, and a third call of 0 bits.
C11_Witness ==
    /\ pc = "wi_done"
    /\ jtag_dev_count = 1
    /\ device = 0
    /\ jtag_devs[0].ir_postscan = 0
    /\ Len(ShiftCalls(calls)) = 3
    /\ ShiftCalls(calls)[3].clock_cycles = 0
    /\ ShiftCalls(calls)[3].final_tms

\* The table icepick_write_ir(d, x) is to leave, given the table it found.
AddressedFrom(table, d, x) ==
    [i \in Slots |->
        [table[i] EXCEPT !.current_ir =
            IF i = d THEN [hi |-> 0, lo |-> x]
            ELSE IF i < jtag_dev_count THEN UINT32_MAX ELSE @]]

\* The transport calls of icepick_write_ir on a table entry, in order; the
\* instruction bits are left open.
CallOrder(entry) ==
    <<[fn |-> "shift_ir"],
      [fn |-> "tdi_seq", final_tms |-> FALSE, clock_cycles |-> entry.ir_prescan],
      [fn |-> "tdi_seq", final_tms |-> (entry.ir_postscan = 0),
       clock_cycles |-> entry.ir_len],
      [fn |-> "tdi_seq", final_tms |-> TRUE, clock_cycles |-> entry.ir_postscan],
      [fn |-> "return_idle", cycles |-> 0]>>

\* A transport call without the bits it carried.
CallShape(c) ==
    IF c.fn = "tdi_seq"
    THEN [fn |-> c.fn, final_tms |-> c.final_tms,
          clock_cycles |-> c.clock_cycles]
    ELSE c

\* How many transport calls have been made at each position of the function.
CallsMadeAt(position) ==
    CASE position \in {"wi_loop", "wi_set", "wi_shift_ir"} -> 0
      [] position = "wi_prescan" -> 1
      [] position = "wi_ir" -> 2
      [] position = "wi_postscan" -> 3
      [] position = "wi_return_idle" -> 4
      [] position = "wi_done" -> 5

\* C12: in every icepick_write_ir no transport call is made before the table
\* writes are complete (every device of the chain in bypass, then the target
\* set), the table is not written again once the transport calls have begun,
\* and the transport calls are, in order, shift_ir once, the prescan shift,
\* the instruction shift, the postscan shift and return_idle(0) once.
C12_TableBeforeTransport ==
    InWriteIr =>
        /\ Len(calls) = CallsMadeAt(pc)
        /\ \A i \in 1 .. Len(calls) :
              CallShape(calls[i]) = CallOrder(jtag_devs[device])[i]
        /\ WriteIrPastSet => jtag_devs = AddressedFrom(entry_devs, device, ir)
        /\ (pc = "wi_set") =>
              \A i \in Chain : jtag_devs[i].current_ir = UINT32_MAX

\* All five calls made on the middle device of three that held other values.
C12_Witness ==
    /\ pc = "wi_done"
    /\ jtag_dev_count = 3
    /\ device = 1
    /\ Len(calls) = 5
    /\ entry_devs[0].current_ir = [hi |-> 0, lo |-> 42]
    /\ jtag_devs # entry_devs

\* C13: no step of icepick_write_ir or icepick_router_handler changes the
\* device count, the order of the devices or any ir_len, ir_prescan or
\* ir_postscan: they stay as enumeration left them, and current_ir is the only
\* field of the table either function writes.
C13_OnlyCurrentIrWritten ==
    [][/\ jtag_dev_count' = jtag_dev_count
       /\ DOMAIN jtag_devs' = DOMAIN jtag_devs
       /\ \A i \in Slots :
             jtag_devs'[i] =
                [jtag_devs[i] EXCEPT !.current_ir = jtag_devs'[i].current_ir]
      ]_vars

\* The router handler has run on a device an earlier icepick_write_ir set.
C13_Witness ==
    /\ pc = "rh_done"
    /\ jtag_dev_count = 3
    /\ Member(dev_index)
    /\ entry_devs[dev_index].current_ir = [hi |-> 0, lo |-> 42]
    /\ jtag_devs[dev_index].current_ir = [hi |-> 0, lo |-> 5]
    /\ jtag_devs[dev_index].ir_prescan = entry_devs[dev_index].ir_prescan

\* The IR bit width of the whole chain.
TotalWidth ==
    SumLens([i \in Chain |-> jtag_devs[i].ir_len], 0, jtag_dev_count - 1)

\* prescan(i) + ir_len(i) + postscan(i) is the chain's width for every device.
Consistent ==
    \A i \in Chain :
        jtag_devs[i].ir_prescan + jtag_devs[i].ir_len
          + jtag_devs[i].ir_postscan = TotalWidth

RECURSIVE SumCycles(_)
SumCycles(cs) ==
    IF cs = <<>> THEN 0 ELSE Head(cs).clock_cycles + SumCycles(Tail(cs))

\* C14: on a table where prescan + ir_len + postscan is the chain's IR width
\* for every device, icepick_write_ir shifts exactly that many bits between
\* entering Shift-IR and leaving it, whichever device is the target.
C14_ShiftsChainWidth ==
    (pc = "wi_done" /\ Member(device) /\ Consistent) =>
        /\ Len(Wire(calls)) = TotalWidth
        /\ SumCycles(ShiftCalls(calls)) = TotalWidth
        /\ Cardinality({i \in 1 .. Len(tapTrace) : tapTrace[i] = "Shift-IR"})
              = TotalWidth

\* The first device of the chain [4, 6, 4]: 14 bits, 10 of them after it.
C14_Witness ==
    /\ pc = "wi_done"
    /\ jtag_dev_count = 3
    /\ device = 0
    /\ jtag_devs[0].ir_len = 4
    /\ jtag_devs[0].ir_postscan = 10
    /\ Len(Wire(calls)) = 14

----------------------------------------------------------------------------
(* The physical chain: the devices' IR shift registers in series *)

\* What Capture-IR loads into the chain: 1, 0 in the two low bits of each IR.
Captured ==
    [p \in 1 .. TotalWidth |->
        IF \E i \in Chain : p = jtag_devs[i].ir_prescan + 1 THEN 1 ELSE 0]

\* The chain register after the bits are clocked in at TDI: position 1 is the
\* one next to TDO, each bit moves the register one place towards it.
RECURSIVE ShiftIn(_, _)
ShiftIn(reg, bits) ==
    IF bits = <<>> \/ reg = <<>> THEN reg
    ELSE ShiftIn(Tail(reg) \o <<Head(bits)>>, Tail(bits))

\* The chain register when the current call leaves Shift-IR.
ChainRegister ==
    ShiftIn(Captured, [k \in 1 .. Len(Wire(calls)) |-> Wire(calls)[k].tdi])

RECURSIVE BitsValue(_, _, _)
BitsValue(reg, from, len) ==
    IF len = 0 THEN 0 ELSE reg[from] + 2 * BitsValue(reg, from + 1, len - 1)

\* The IR device i latches at Update-IR: its own stretch of the chain
\* register, the prescan(i) bits before it belonging to the devices shifted
\* before it.
LatchedIr(i) ==
    BitsValue(ChainRegister, jtag_devs[i].ir_prescan + 1, jtag_devs[i].ir_len)

\* The IR the device table says device i holds: all ones when in bypass.
TableIr(i) ==
    IF jtag_devs[i].current_ir = UINT32_MAX
    THEN (2 ^ jtag_devs[i].ir_len) - 1
    ELSE jtag_devs[i].current_ir.lo

\* C15: when icepick_write_ir(d, x) reaches Update-IR on a consistent table
\* with x fitting ir_len(d), every device of the chain has latched what the
\* device table says: d latches x, every other device all ones, after any
\* sequence of earlier calls.
C15_LatchedAgreesWithTable ==
    (pc = "wi_done" /\ Member(device) /\ Consistent /\ tap = "Update-IR"
       /\ ir < 2 ^ jtag_devs[device].ir_len) =>
        \A i \in Chain :
            /\ LatchedIr(i) = TableIr(i)
            /\ LatchedIr(i) = IF i = device THEN ir
                              ELSE (2 ^ jtag_devs[i].ir_len) - 1

\* Within the 8 bits of ir the latched IRs agree with the table.
LatchedAgreesUpTo8Bits ==
    (pc = "wi_done" /\ Member(device) /\ Consistent /\ tap = "Update-IR"
       /\ ir < 2 ^ jtag_devs[device].ir_len
       /\ jtag_devs[device].ir_len <= 8) =>
        \A i \in Chain :
            /\ LatchedIr(i) = TableIr(i)
            /\ LatchedIr(i) = IF i = device THEN ir
                              ELSE (2 ^ jtag_devs[i].ir_len) - 1

====
